---- MODULE Spec2Model ----
(***************************************************************************)
(* Model of the Google Books ngram scraper (souravray/gb-ngram-scapper).    *)
(*                                                                         *)
(* src/src/main.js holds two pipelines: the single-attempt pipeline        *)
(* (lines 1-246) and the retrying, checkpointed pipeline (lines 248-446).   *)
(* src/ngram-scraper.js is the standalone script.                           *)
(*                                                                         *)
(* A word (a JavaScript string) is a sequence of atoms; the corpus          *)
(* annotation " (All)" is one atom, so String.replace(" (All)", "") is the  *)
(* removal of the first such atom.  A number of the timeseries is an        *)
(* integer count of 10^-13; a decimal string is the record of its sign,     *)
(* integer part, fractional digits and number of decimals.                  *)
(***************************************************************************)
EXTENDS Integers, Sequences, FiniteSets, TLC

----------------------------------------------------------------------------
(* Bounds of the model *)

MaxWords == 3
MaxRestarts == 1
MaxResp == 2

(* Program constants *)

MAX_RETRIES == 5
BASE_DELAY == 2000
UpperBoundSingle == 20
UpperBoundRetry == 12
DefaultBatchSize == 12

----------------------------------------------------------------------------
(* Strings and numbers *)

AllSuffix == " (All)"

Letters == <<"a", "b", "c", "d", "e", "f">>

Word(k) == <<Letters[k]>>

WordList(n) == [k \in 1..n |-> Word(k)]

RECURSIVE RemoveFirst(_, _)
RemoveFirst(s, atom) ==
    IF s = <<>> THEN <<>>
    ELSE IF Head(s) = atom THEN Tail(s)
    ELSE <<Head(s)>> \o RemoveFirst(Tail(s), atom)

(* Number.prototype.toFixed(10) of a non-negative number given in units of *)
(* 10^-13: round to the nearest 10^-10, print ten decimals (two groups of  *)
(* five digits).                                                            *)
ToFixed10(f) ==
    LET q  == (f + 500) \div 1000
        hi == q \div 100000
    IN  [nan |-> FALSE, neg |-> FALSE, int |-> hi \div 100000,
         frac |-> <<hi % 100000, q % 100000>>, digits |-> 10]

NaNString == [nan |-> TRUE, neg |-> FALSE, int |-> 0, frac |-> <<0, 0>>, digits |-> 0]

Sentinel10 == [nan |-> FALSE, neg |-> TRUE, int |-> 1, frac |-> <<0, 0>>, digits |-> 10]

Sentinel1 == [nan |-> FALSE, neg |-> TRUE, int |-> 1, frac |-> <<0, 0>>, digits |-> 1]

(* item.timeseries[item.timeseries.length - 1] * 100, then toFixed(10);    *)
(* an empty timeseries reads undefined, undefined * 100 is NaN.            *)
LastFreq(item) ==
    IF item.timeseries = <<>> THEN NaNString
    ELSE ToFixed10(item.timeseries[Len(item.timeseries)] * 100)

----------------------------------------------------------------------------
(* Response normalisation *)

EmptyMap == [k \in {} |-> NaNString]

MapSet(m, k, v) == [x \in (DOMAIN m) \cup {k} |-> IF x = k THEN v ELSE m[x]]

IsCaseInsensitive(item) == item.type = "CASE_INSENSITIVE"

(* single-attempt pipeline: the label is the key as it is *)
RECURSIVE ResultsMapSingle(_, _)
ResultsMapSingle(data, m) ==
    IF data = <<>> THEN m
    ELSE ResultsMapSingle(Tail(data),
            MapSet(m, Head(data).ngram, LastFreq(Head(data))))

(* retrying pipeline and standalone script: " (All)" is stripped *)
RECURSIVE ResultsMapStripped(_, _)
ResultsMapStripped(data, m) ==
    IF data = <<>> THEN m
    ELSE ResultsMapStripped(Tail(data),
            MapSet(m, RemoveFirst(Head(data).ngram, AllSuffix), LastFreq(Head(data))))

(* a normaliser that emits records only for the words the response holds *)
WordFreqFromFound(words, resultsMap, sentinel) ==
    LET Found(w) == w \in DOMAIN resultsMap
        found == SelectSeq(words, Found)
    IN  [k \in 1..Len(found) |-> [word |-> found[k], freq |-> resultsMap[found[k]]]]

WordFreqFrom(words, resultsMap, sentinel) ==
    [k \in 1..Len(words) |->
        [word |-> words[k],
         freq |-> IF words[k] \in DOMAIN resultsMap THEN resultsMap[words[k]] ELSE sentinel]]

WordFreqSingle(words, data) ==
    WordFreqFrom(words,
                 ResultsMapSingle(SelectSeq(data, IsCaseInsensitive), EmptyMap),
                 Sentinel10)

WordFreqRetry(words, data) ==
    WordFreqFrom(words,
                 ResultsMapStripped(SelectSeq(data, IsCaseInsensitive), EmptyMap),
                 Sentinel10)

WordFreqScript(words, data) ==
    WordFreqFrom(words,
                 ResultsMapStripped(SelectSeq(data, IsCaseInsensitive), EmptyMap),
                 Sentinel1)

ScrapeNgramsResult(words, data) ==
    [word_freq |-> WordFreqSingle(words, data), batch_size |-> Len(words)]

ProcessBatchResult(words, data) ==
    [word_freq |-> WordFreqRetry(words, data), batch_size |-> Len(words)]

ScriptResult(words, data) ==
    [word_freq |-> WordFreqScript(words, data)]

----------------------------------------------------------------------------
(* Input, validation and batch arithmetic *)

(* Array.prototype.slice(start, end) *)
SliceIndex(x, len) ==
    IF x < 0 THEN (IF len + x < 0 THEN 0 ELSE len + x)
    ELSE (IF x > len THEN len ELSE x)

Slice(s, start, end) ==
    LET from == SliceIndex(start, Len(s))
        to   == SliceIndex(end, Len(s))
    IN  IF from >= to THEN <<>> ELSE SubSeq(s, from + 1, to)

(* Math.ceil(n / d) and Math.floor(n / d) for n >= 0, d >= 1 *)
CeilDiv(n, d) == (n + d - 1) \div d

FloorDiv(n, d) == n \div d

(* Math.pow(2, n) *)
RECURSIVE Pow2(_)
Pow2(n) == IF n <= 0 THEN 1 ELSE 2 * Pow2(n - 1)

(* words = [] is the destructuring default of an absent field *)
WordsOf(in) == IF in.kind = "absent" THEN <<>> ELSE in.val

(* !words || !Array.isArray(words) || words.length === 0 *)
WordsRejected(in) == in.kind = "notArray" \/ Len(WordsOf(in)) = 0

UpperBound(v) == IF v = "single" THEN UpperBoundSingle ELSE UpperBoundRetry

(* a validation that forgets the upper bound *)
BatchSizeRejectedNoUpper(v, bs) == bs < 1

(* batchSize < 1 || batchSize > upper bound *)
BatchSizeRejected(v, bs) == bs < 1 \/ bs > UpperBound(v)

InputRejected(v, in, bs) == WordsRejected(in) \/ BatchSizeRejected(v, bs)

----------------------------------------------------------------------------
(* State *)

VARIABLES
    variant,            \* "single" (main.js 1-246) or "retry" (main.js 248-446)
    inWords,            \* the words field of the input: [kind, val]
    inBatchSize,        \* the batchSize field of the input
    listChanged,        \* a later run was given another word list than the first
    pc,                 \* the await the run is suspended at
    store,              \* key-value store "default"
    sink,               \* the dataset: records pushed by Actor.pushData
    file,               \* ngram_results.json
    i, batch, retries, delay, success,
    batchNumber, totalBatches, successfulBatches,
    result,             \* the result of the batch in hand
    error,              \* what main caught: "none", "config", "exhausted"
    summary,            \* the summary logged at the end of processAllWords
    run,                \* number of restarts of the process so far
    netRequests,        \* fetch calls issued in this run
    requested,          \* loop indices of the batches fetched in this run
    formed,             \* the batches sliced in this run, in order
    exhausted,          \* loop indices of the batches that failed for good
    attempts,           \* fetch calls issued for the batch in hand
    backoffs,           \* backoff delays taken for the batch in hand
    pacing,             \* pacing delay taken since the last batch ended
    startIndex,         \* loop index this run started from
    sinkAtStart,        \* length of the sink when this run started
    nWords, nData, nOut, nStep   \* the normaliser applied in isolation

inputs == <<variant, inWords, inBatchSize, listChanged>>

durable == <<store, sink, file>>

locals == <<i, batch, retries, delay, success, batchNumber, totalBatches,
            successfulBatches, result>>

outcome == <<error, summary>>

history == <<run, netRequests, requested, formed, exhausted, attempts, backoffs,
             pacing, startIndex, sinkAtStart>>

nvars == <<nWords, nData, nOut, nStep>>

vars == <<inputs, pc, durable, locals, outcome, history, nvars>>

----------------------------------------------------------------------------
(* Values *)

Variants == {"single", "retry"}

BatchSizes == (-1 .. MaxWords) \cup
              {UpperBoundRetry, UpperBoundRetry + 1, UpperBoundSingle, UpperBoundSingle + 1}

WordInputs == {[kind |-> "absent", val |-> <<>>], [kind |-> "notArray", val |-> <<>>]}
              \cup {[kind |-> "array", val |-> WordList(n)] : n \in 0..MaxWords}

(* Math.random() * 1000 lies in [0, 1000); Math.random() * 3000 in [0, 3000) *)
Jitters == {0, 999}

PacingJitters == {0, 2999}

NoResult == [word_freq |-> <<>>, batch_size |-> 0]

NoSummary == [produced |-> FALSE, totalWords |-> 0, totalBatches |-> 0,
              successfulBatches |-> 0, failedBatches |-> 0]

EmptyStore == [k \in {} |-> 0]

CheckpointKey == "lastProcessedIndex"

(* (await store.getValue("lastProcessedIndex")) || 0 *)
GetValueOr0(st, key) == IF key \in DOMAIN st /\ st[key] # 0 THEN st[key] ELSE 0

SetValue(st, key, v) == [k \in (DOMAIN st) \cup {key} |-> IF k = key THEN v ELSE st[k]]

(* The API's answer for a batch: one CASE_INSENSITIVE entry, labelled      *)
(* "<word> (All)", for each batch word the corpus holds.                   *)
Corpus == {Word(1), Word(3), Word(5)}

InCorpus(w) == w \in Corpus

ApiEntry(w) ==
    [type |-> "CASE_INSENSITIVE", ngram |-> w \o <<AllSuffix>>, timeseries |-> <<7, 15>>]

ApiResponse(b) ==
    LET found == SelectSeq(b, InCorpus)
    IN  [k \in 1..Len(found) |-> ApiEntry(found[k])]

Responses(b) == {ApiResponse(b)}

SuccessRecord(res) ==
    [error |-> FALSE, word_freq |-> res.word_freq, batch_size |-> res.batch_size,
     processedIndex |-> -1, totalWords |-> -1]

ProgressRecord(res, idx, total) ==
    [error |-> FALSE, word_freq |-> res.word_freq, batch_size |-> res.batch_size,
     processedIndex |-> idx, totalWords |-> total]

FailureRecord(n, b, msg) ==
    [error |-> TRUE, batch_number |-> n, failed_words |-> b, error_message |-> msg]

RecordWords(rec) == [k \in 1..Len(rec.word_freq) |-> rec.word_freq[k].word]

Words == WordsOf(inWords)

----------------------------------------------------------------------------
(* Initial state: a fresh store and dataset, the process about to run main *)

InitLocals ==
    /\ i = 0 /\ batch = <<>> /\ retries = 0 /\ delay = 0 /\ success = FALSE
    /\ batchNumber = 0 /\ totalBatches = 0 /\ successfulBatches = 0
    /\ result = NoResult

InitHistory ==
    /\ run = 0 /\ netRequests = 0 /\ requested = {} /\ formed = <<>>
    /\ exhausted = {} /\ attempts = 0 /\ backoffs = <<>> /\ pacing = 0
    /\ startIndex = 0 /\ sinkAtStart = 0

IdleNorm == nWords = <<>> /\ nData = <<>> /\ nOut = NoResult /\ nStep = "off"

Init ==
    /\ variant \in Variants
    /\ inWords \in WordInputs
    /\ inBatchSize \in BatchSizes
    /\ listChanged = FALSE
    /\ pc = "main"
    /\ store = EmptyStore /\ sink = <<>> /\ file = NoResult
    /\ InitLocals
    /\ error = "none" /\ summary = NoSummary
    /\ InitHistory
    /\ IdleNorm

----------------------------------------------------------------------------
(* main: read the input, validate it, run the scraper *)

Main ==
    /\ pc = "main"
    /\ IF InputRejected(variant, inWords, inBatchSize)
       THEN /\ error' = "config"
            /\ pc' = "exit"
       ELSE /\ error' = error
            /\ pc' = IF variant = "single" THEN "s_enter" ELSE "r_enter"
    /\ UNCHANGED <<inputs, durable, locals, summary, history, nvars>>

----------------------------------------------------------------------------
(* Single-attempt pipeline *)

SinglePacingDelay == 2000

(* a loop that steps by one word instead of one batch *)
NextIndexByOne(idx, bs) == idx + 1

NextIndex(idx, bs) == idx + bs

SEnter ==
    /\ pc = "s_enter"
    /\ totalBatches' = CeilDiv(Len(Words), inBatchSize)
    /\ successfulBatches' = 0
    /\ i' = 0
    /\ pc' = "s_loop"
    /\ UNCHANGED <<inputs, durable, batch, retries, delay, success, batchNumber,
                   result, outcome, history, nvars>>

SLoop ==
    /\ pc = "s_loop"
    /\ IF i < Len(Words)
       THEN /\ batch' = Slice(Words, i, i + inBatchSize)
            /\ batchNumber' = FloorDiv(i, inBatchSize) + 1
            /\ formed' = Append(formed, batch')
            /\ attempts' = 0
            /\ pc' = "s_fetch"
       ELSE /\ UNCHANGED <<batch, batchNumber, formed, attempts>>
            /\ pc' = "s_summary"
    /\ UNCHANGED <<inputs, durable, i, retries, delay, success, totalBatches,
                   successfulBatches, result, outcome, run, netRequests, requested,
                   exhausted, backoffs, pacing, startIndex, sinkAtStart, nvars>>

(* scrapeNgrams: one GET; a non-ok status, a network error or a body that *)
(* does not parse throws                                                  *)
SFetch ==
    /\ pc = "s_fetch"
    /\ netRequests' = netRequests + 1
    /\ requested' = requested \cup {i}
    /\ attempts' = attempts + 1
    /\ pacing' = 0
    /\ \/ \E data \in Responses(batch) :
            /\ result' = ScrapeNgramsResult(batch, data)
            /\ pc' = "s_push"
       \/ /\ result' = result
          /\ pc' = "s_catch"
    /\ UNCHANGED <<inputs, durable, i, batch, retries, delay, success, batchNumber,
                   totalBatches, successfulBatches, outcome, run, formed, exhausted,
                   backoffs, startIndex, sinkAtStart, nvars>>

SPush ==
    /\ pc = "s_push"
    /\ sink' = Append(sink, SuccessRecord(result))
    /\ pc' = "s_writeFile"
    /\ UNCHANGED <<inputs, store, file, locals, outcome, history, nvars>>

(* await fs.writeFile("ngram_results.json", ...), inside processBatch's try *)
(* after the push: a rejected write is caught by processBatch's catch       *)
SWriteFile ==
    /\ pc = "s_writeFile"
    /\ \/ /\ file' = result
          /\ IF batchNumber < totalBatches
             THEN /\ pacing' = SinglePacingDelay
                  /\ pc' = "s_pacing"
                  /\ UNCHANGED <<i, successfulBatches>>
             ELSE /\ pacing' = pacing
                  /\ successfulBatches' = successfulBatches + 1
                  /\ i' = NextIndex(i, inBatchSize)
                  /\ pc' = "s_loop"
       \/ /\ file' = file
          /\ pc' = "s_catch_fs"
          /\ UNCHANGED <<i, successfulBatches, pacing>>
    /\ UNCHANGED <<inputs, store, sink, batch, retries, delay, success, batchNumber,
                   totalBatches, result, outcome, run, netRequests, requested, formed,
                   exhausted, attempts, backoffs, startIndex, sinkAtStart, nvars>>

SPacing ==
    /\ pc = "s_pacing"
    /\ successfulBatches' = successfulBatches + 1
    /\ i' = NextIndex(i, inBatchSize)
    /\ pc' = "s_loop"
    /\ UNCHANGED <<inputs, durable, batch, retries, delay, success, batchNumber,
                   totalBatches, result, outcome, history, nvars>>

(* processBatch's catch pushes the failure record and rethrows;           *)
(* processAllWords' catch continues with the next batch                   *)
SCatch ==
    /\ pc \in {"s_catch", "s_catch_fs"}
    /\ sink' = Append(sink, FailureRecord(batchNumber, batch,
                        IF pc = "s_catch" THEN "HTTP error" ELSE "write error"))
    /\ exhausted' = exhausted \cup {i}
    /\ i' = NextIndex(i, inBatchSize)
    /\ pc' = "s_loop"
    /\ UNCHANGED <<inputs, store, file, batch, retries, delay, success, batchNumber,
                   totalBatches, successfulBatches, result, outcome, run, netRequests,
                   requested, formed, attempts, backoffs, pacing, startIndex,
                   sinkAtStart, nvars>>

SSummary ==
    /\ pc = "s_summary"
    /\ summary' = [produced |-> TRUE, totalWords |-> Len(Words),
                   totalBatches |-> totalBatches,
                   successfulBatches |-> successfulBatches,
                   failedBatches |-> totalBatches - successfulBatches]
    /\ pc' = "exit"
    /\ UNCHANGED <<inputs, durable, locals, error, history, nvars>>

----------------------------------------------------------------------------
(* Retrying, checkpointed pipeline *)

(* a checkpoint that holds the size of the batch, not the cumulative index *)
CheckpointValueBatchOnly(idx, b) == Len(b)

(* i + batch.length, the value pushed as processedIndex and checkpointed *)
CheckpointValue(idx, b) == idx + Len(b)

(* while (!success && retries < MAX_RETRIES) *)
WhileContinues(ok, r) == ~ok /\ r < MAX_RETRIES

(* a budget check that is off by one *)
RetriesExhaustedLate(r) == r > MAX_RETRIES

(* if (retries === MAX_RETRIES) throw *)
RetriesExhausted(r) == r = MAX_RETRIES

(* a backoff whose exponent is the number of retries already taken *)
BackoffDelayFromZero(r, jitter) == BASE_DELAY * Pow2(r - 1) + jitter

(* BASE_DELAY * Math.pow(2, retries) + jitter() *)
BackoffDelay(r, jitter) == BASE_DELAY * Pow2(r) + jitter

(* if (i + batchSize < words.length) await the pacing delay; then i += batchSize *)
AfterWhile ==
    IF i + inBatchSize < Len(Words)
    THEN /\ \E j \in PacingJitters : pacing' = BASE_DELAY + j
         /\ pc' = "r_pacing"
         /\ i' = i
    ELSE /\ pacing' = pacing
         /\ i' = NextIndex(i, inBatchSize)
         /\ pc' = "r_loop"

REnterFromZero ==
    /\ pc = "r_enter"
    /\ i' = 0
    /\ startIndex' = GetValueOr0(store, CheckpointKey)
    /\ pc' = "r_loop"
    /\ UNCHANGED <<inputs, durable, batch, retries, delay, success, batchNumber,
                   totalBatches, successfulBatches, result, outcome, run, netRequests,
                   requested, formed, exhausted, attempts, backoffs, pacing,
                   sinkAtStart, nvars>>

REnter ==
    /\ pc = "r_enter"
    /\ i' = GetValueOr0(store, CheckpointKey)
    /\ startIndex' = i'
    /\ pc' = "r_loop"
    /\ UNCHANGED <<inputs, durable, batch, retries, delay, success, batchNumber,
                   totalBatches, successfulBatches, result, outcome, run, netRequests,
                   requested, formed, exhausted, attempts, backoffs, pacing,
                   sinkAtStart, nvars>>

RLoopKeepsRetries ==
    /\ pc = "r_loop"
    /\ IF i < Len(Words)
       THEN /\ batch' = Slice(Words, i, i + inBatchSize)
            /\ success' = FALSE
            /\ formed' = Append(formed, batch')
            /\ attempts' = 0
            /\ backoffs' = <<>>
            /\ pc' = "r_fetch"
            /\ UNCHANGED <<retries, delay>>
       ELSE /\ UNCHANGED <<batch, retries, delay, success, formed, attempts, backoffs>>
            /\ pc' = "exit"
    /\ UNCHANGED <<inputs, durable, i, batchNumber, totalBatches, successfulBatches,
                   result, outcome, run, netRequests, requested, exhausted, pacing,
                   startIndex, sinkAtStart, nvars>>

RLoop ==
    /\ pc = "r_loop"
    /\ IF i < Len(Words)
       THEN /\ batch' = Slice(Words, i, i + inBatchSize)
            /\ retries' = 0
            /\ delay' = BASE_DELAY
            /\ success' = FALSE
            /\ formed' = Append(formed, batch')
            /\ attempts' = 0
            /\ backoffs' = <<>>
            /\ pc' = "r_fetch"
       ELSE /\ UNCHANGED <<batch, retries, delay, success, formed, attempts, backoffs>>
            /\ pc' = "exit"
    /\ UNCHANGED <<inputs, durable, i, batchNumber, totalBatches, successfulBatches,
                   result, outcome, run, netRequests, requested, exhausted, pacing,
                   startIndex, sinkAtStart, nvars>>

(* the catch of processAllWords: it counts the failure, throws when the    *)
(* budget is used up and backs off otherwise; result, a const of the try   *)
(* block, is gone                                                          *)
RCatch ==
    /\ result' = NoResult
    /\ retries' = retries + 1
    /\ IF RetriesExhausted(retries')
       THEN /\ error' = "exhausted"
            /\ exhausted' = exhausted \cup {i}
            /\ pc' = "exit"
            /\ UNCHANGED <<delay, backoffs>>
       ELSE /\ \E jitter \in Jitters : delay' = BackoffDelay(retries', jitter)
            /\ backoffs' = Append(backoffs, delay')
            /\ pc' = "r_backoff"
            /\ UNCHANGED <<error, exhausted>>

RFetchRecordsFailure ==
    /\ pc = "r_fetch"
    /\ netRequests' = netRequests + 1
    /\ requested' = requested \cup {i}
    /\ attempts' = attempts + 1
    /\ pacing' = 0
    /\ \/ \E data \in Responses(batch) :
            /\ result' = ProcessBatchResult(batch, data)
            /\ pc' = "r_writeFile"
            /\ sink' = sink
            /\ UNCHANGED <<retries, delay, backoffs, error, exhausted>>
       \/ /\ RCatch
          /\ sink' = Append(sink, FailureRecord(attempts', batch, "HTTP error"))
    /\ UNCHANGED <<inputs, store, file, i, batch, success, batchNumber, totalBatches,
                   successfulBatches, summary, run, formed, startIndex, sinkAtStart,
                   nvars>>

(* processBatch up to its first write: one GET, the body parsed and        *)
(* normalised; a non-ok status, a network error or a body that does not    *)
(* parse throws and is caught by processAllWords                           *)
RFetch ==
    /\ pc = "r_fetch"
    /\ netRequests' = netRequests + 1
    /\ requested' = requested \cup {i}
    /\ attempts' = attempts + 1
    /\ pacing' = 0
    /\ \/ \E data \in Responses(batch) :
            /\ result' = ProcessBatchResult(batch, data)
            /\ pc' = "r_writeFile"
            /\ UNCHANGED <<retries, delay, backoffs, error, exhausted>>
       \/ RCatch
    /\ UNCHANGED <<inputs, durable, i, batch, success, batchNumber, totalBatches,
                   successfulBatches, summary, run, formed, startIndex, sinkAtStart,
                   nvars>>

RBackoff ==
    /\ pc = "r_backoff"
    /\ IF WhileContinues(success, retries)
       THEN /\ pc' = "r_fetch"
            /\ UNCHANGED <<i, pacing>>
       ELSE AfterWhile
    /\ UNCHANGED <<inputs, durable, batch, retries, delay, success, batchNumber,
                   totalBatches, successfulBatches, result, outcome, run, netRequests,
                   requested, formed, exhausted, attempts, backoffs, startIndex,
                   sinkAtStart, nvars>>

(* a pipeline that checkpoints before it commits *)
RWriteFileCheckpointFirst ==
    /\ pc = "r_writeFile"
    /\ file' = result
    /\ store' = SetValue(store, CheckpointKey, CheckpointValue(i, batch))
    /\ pc' = "r_push1"
    /\ UNCHANGED <<inputs, sink, locals, outcome, history, nvars>>

(* processBatch: await fs.writeFile("ngram_results.json", ...); a rejected *)
(* write is caught by processAllWords like any failure of the attempt      *)
RWriteFile ==
    /\ pc = "r_writeFile"
    /\ \/ /\ file' = result
          /\ pc' = "r_push1"
          /\ UNCHANGED <<result, retries, delay, backoffs, error, exhausted>>
       \/ /\ file' = file
          /\ RCatch
    /\ UNCHANGED <<inputs, store, sink, i, batch, success, batchNumber, totalBatches,
                   successfulBatches, summary, run, netRequests, requested, formed,
                   attempts, pacing, startIndex, sinkAtStart, nvars>>

(* processBatch: await Actor.pushData(result) *)
RPush1 ==
    /\ pc = "r_push1"
    /\ sink' = Append(sink, SuccessRecord(result))
    /\ pc' = "r_push2"
    /\ UNCHANGED <<inputs, store, file, locals, outcome, history, nvars>>

(* processAllWords: await Actor.pushData({...result, processedIndex, totalWords}) *)
RPush2 ==
    /\ pc = "r_push2"
    /\ sink' = Append(sink, ProgressRecord(result, CheckpointValue(i, batch), Len(Words)))
    /\ pc' = "r_setValue"
    /\ UNCHANGED <<inputs, store, file, locals, outcome, history, nvars>>

RSetValue ==
    /\ pc = "r_setValue"
    /\ store' = SetValue(store, CheckpointKey, CheckpointValue(i, batch))
    /\ success' = TRUE
    /\ AfterWhile
    /\ UNCHANGED <<inputs, sink, file, batch, retries, delay, batchNumber,
                   totalBatches, successfulBatches, result, outcome, run, netRequests,
                   requested, formed, exhausted, attempts, backoffs, startIndex,
                   sinkAtStart, nvars>>

RPacing ==
    /\ pc = "r_pacing"
    /\ i' = NextIndex(i, inBatchSize)
    /\ pc' = "r_loop"
    /\ UNCHANGED <<inputs, durable, batch, retries, delay, success, batchNumber,
                   totalBatches, successfulBatches, result, outcome, history, nvars>>

(* The host terminates the process while it is suspended at an await, and  *)
(* the actor is started again with the same input, store and dataset.      *)
Suspended == {"r_enter", "r_fetch", "r_backoff", "r_writeFile", "r_push1",
              "r_push2", "r_setValue", "r_pacing"}

Interrupt ==
    /\ variant = "retry"
    /\ pc \in Suspended
    /\ run < MaxRestarts
    /\ pc' = "main"
    /\ i' = 0 /\ batch' = <<>> /\ retries' = 0 /\ delay' = 0 /\ success' = FALSE
    /\ result' = NoResult
    /\ run' = run + 1
    /\ netRequests' = 0 /\ requested' = {} /\ formed' = <<>> /\ exhausted' = {}
    /\ attempts' = 0 /\ backoffs' = <<>> /\ pacing' = 0 /\ startIndex' = 0
    /\ sinkAtStart' = Len(sink)
    /\ UNCHANGED <<inputs, durable, batchNumber, totalBatches, successfulBatches,
                   outcome, nvars>>

(* The actor is run again after a run has ended, on the same store and     *)
(* dataset, with the same word list or with a shorter one.                 *)
RerunLists == {[kind |-> "array", val |-> WordList(n)] :
                 n \in {m \in {Len(Words) - 1, Len(Words)} : m >= 1}}

Rerun ==
    /\ variant = "retry"
    /\ pc = "exit"
    /\ error # "config"
    /\ run < MaxRestarts
    /\ inWords' \in RerunLists
    /\ listChanged' = (listChanged \/ inWords' # inWords)
    /\ pc' = "main"
    /\ error' = "none"
    /\ i' = 0 /\ batch' = <<>> /\ retries' = 0 /\ delay' = 0 /\ success' = FALSE
    /\ result' = NoResult
    /\ run' = run + 1
    /\ netRequests' = 0 /\ requested' = {} /\ formed' = <<>> /\ exhausted' = {}
    /\ attempts' = 0 /\ backoffs' = <<>> /\ pacing' = 0 /\ startIndex' = 0
    /\ sinkAtStart' = Len(sink)
    /\ UNCHANGED <<variant, inBatchSize, durable, batchNumber, totalBatches,
                   successfulBatches, summary, nvars>>

----------------------------------------------------------------------------

Next ==
    \/ Main
    \/ SEnter \/ SLoop \/ SFetch \/ SPush \/ SWriteFile \/ SPacing \/ SCatch \/ SSummary
    \/ REnter \/ RLoop \/ RFetch \/ RBackoff \/ RWriteFile \/ RPush1 \/ RPush2
    \/ RSetValue \/ RPacing
    \/ Interrupt
    \/ Rerun

(* the steps of a run of the retrying pipeline: every await of the run     *)
(* returns, so a run that is not killed takes its next step                *)
RunSteps ==
    \/ Main \/ REnter \/ RLoop \/ RFetch \/ RBackoff \/ RWriteFile \/ RPush1 \/ RPush2
    \/ RSetValue \/ RPacing

Spec == Init /\ [][Next]_vars

(* Runs of the retrying pipeline that are not killed: every await of a run *)
(* returns, and the actor may be run again after a run has ended.          *)
InitRetry == Init /\ variant = "retry"

NextRun == RunSteps \/ Rerun

SpecLive == InitRetry /\ [][NextRun]_vars /\ WF_vars(RunSteps)

----------------------------------------------------------------------------
(* The normalisers applied to one batch and one parsed response body *)

NormVocab == {Word(1), Word(2)}

NormLabels == {Word(1), Word(1) \o <<AllSuffix>>, Word(2) \o <<AllSuffix>>}

NormEntries ==
    [type : {"CASE_INSENSITIVE", "NGRAM"}, ngram : NormLabels,
     timeseries : {<<>>, <<3>>, <<7, 15>>}]

SeqsUpTo(S, n) == UNION {[1..k -> S] : k \in 0..n}

NormBatches == SeqsUpTo(NormVocab, MaxResp) \ {<<>>}

NormResponses == SeqsUpTo(NormEntries, MaxResp)

InitNorm ==
    /\ variant = "single"
    /\ inWords = [kind |-> "absent", val |-> <<>>]
    /\ inBatchSize = DefaultBatchSize
    /\ listChanged = FALSE
    /\ pc = "off"
    /\ store = EmptyStore /\ sink = <<>> /\ file = NoResult
    /\ InitLocals
    /\ error = "none" /\ summary = NoSummary
    /\ InitHistory
    /\ nWords \in NormBatches
    /\ nData \in NormResponses
    /\ nOut = NoResult
    /\ nStep = "input"

(* main.js, single-attempt pipeline: scrapeNgrams after response.json() *)
NormScrapeNgrams ==
    /\ nStep = "input"
    /\ nOut' = ScrapeNgramsResult(nWords, nData)
    /\ nStep' = "single"
    /\ UNCHANGED <<inputs, pc, durable, locals, outcome, history, nWords, nData>>

(* main.js, retrying pipeline: processBatch after response.json() *)
NormProcessBatch ==
    /\ nStep = "input"
    /\ nOut' = ProcessBatchResult(nWords, nData)
    /\ nStep' = "retry"
    /\ UNCHANGED <<inputs, pc, durable, locals, outcome, history, nWords, nData>>

(* ngram-scraper.js: scrapeNgrams after response.json() *)
NormScript ==
    /\ nStep = "input"
    /\ nOut' = ScriptResult(nWords, nData)
    /\ nStep' = "script"
    /\ UNCHANGED <<inputs, pc, durable, locals, outcome, history, nWords, nData>>

NextNorm == NormScrapeNgrams \/ NormProcessBatch \/ NormScript

SpecNorm == InitNorm /\ [][NextNorm]_vars

----------------------------------------------------------------------------
(* Notions the properties are stated in *)

RECURSIVE Concat(_)
Concat(ss) == IF ss = <<>> THEN <<>> ELSE Head(ss) \o Concat(Tail(ss))

Max(S) == CHOOSE x \in S : \A y \in S : y <= x

(* the batch the loop slices at loop index j *)
BatchAt(j) == Slice(Words, j, j + inBatchSize)

(* the loop indices a run that started at index s has to go through *)
LoopIndices(s) == {j \in s..(Len(Words) - 1) : (j - s) % inBatchSize = 0}

(* the words that have a success record among the first n records of the sink *)
CommittedWords(n) ==
    UNION {{RecordWords(sink[k])[m] : m \in 1..Len(sink[k].word_freq)} :
             k \in {x \in 1..n : ~sink[x].error}}

(* the number of leading words of the list that have a success record *)
LeadingCommitted ==
    Max({k \in 0..Len(Words) : \A j \in 1..k : Words[j] \in CommittedWords(Len(sink))})

(* a success record of batch b was in the sink when this run started *)
CommittedBefore(b) ==
    \E k \in 1..sinkAtStart : ~sink[k].error /\ RecordWords(sink[k]) = b

HasFailureRecord(j) ==
    \E k \in 1..Len(sink) :
        /\ sink[k].error
        /\ sink[k].failed_words = BatchAt(j)
        /\ sink[k].batch_number = FloorDiv(j, inBatchSize) + 1
        /\ sink[k].error_message # ""

RunEnded == pc = "exit" /\ error # "config"

----------------------------------------------------------------------------
(* C1: when a batch has failed for good, the run goes on: at the end of   *)
(* the run every later batch of the word list has been attempted.         *)
C1_RunContinuesAfterFailure ==
    (RunEnded /\ exhausted # {}) =>
        \A e \in exhausted :
            \A j \in LoopIndices(startIndex) : j > e => j \in requested

(* C2: in the retrying pipeline the stored checkpoint never exceeds the   *)
(* number of leading words whose success record is in the sink, in every  *)
(* state of a run over one word list, restarts after an interruption      *)
(* included.                                                              *)
C2_CheckpointBehindCommit ==
    (variant = "retry" /\ ~listChanged) =>
        /\ GetValueOr0(store, CheckpointKey) <= LeadingCommitted
        /\ (CheckpointKey \in DOMAIN store => store[CheckpointKey] <= LeadingCommitted)

C2_Witness ==
    /\ variant = "retry"
    /\ run > 0
    /\ pc = "r_setValue"
    /\ GetValueOr0(store, CheckpointKey) > 0
    /\ GetValueOr0(store, CheckpointKey) < LeadingCommitted

(* C3: a restarted run of the retrying pipeline issues no network request *)
(* for a batch whose success record was in the sink before the            *)
(* interruption.                                                          *)
C3_NoReprocessing ==
    (variant = "retry" /\ run > 0) =>
        \A j \in requested : ~CommittedBefore(BatchAt(j))

(* C4: a batch of the retrying pipeline is attempted at most MAX_RETRIES  *)
(* times; it succeeds at attempt f+1 after exactly f backoff delays, and  *)
(* it fails for good after MAX_RETRIES failed attempts and exactly        *)
(* MAX_RETRIES - 1 backoff delays.                                        *)
C4_RetryBudget ==
    variant = "retry" =>
        /\ attempts <= MAX_RETRIES
        /\ retries <= MAX_RETRIES
        /\ success => /\ attempts = retries + 1
                      /\ Len(backoffs) = retries
        /\ retries = MAX_RETRIES => error = "exhausted" /\ pc = "exit"
        /\ error = "exhausted" => /\ attempts = MAX_RETRIES
                                  /\ retries = MAX_RETRIES
                                  /\ Len(backoffs) = MAX_RETRIES - 1
                                  /\ ~success

C4_Witness ==
    /\ variant = "retry"
    /\ success
    /\ attempts = MAX_RETRIES
    /\ Len(backoffs) = MAX_RETRIES - 1

(* C5: on a fresh run the batches processAllWords forms are non-empty, of *)
(* size at most batchSize, and their concatenation in processing order is *)
(* the word list.                                                         *)
C5_BatchesReconstructList ==
    (RunEnded /\ run = 0) =>
        /\ Concat(formed) = Words
        /\ \A k \in 1..Len(formed) : Len(formed[k]) \in 1..inBatchSize

(* C6: a batch that failed for good has its failure record (error, batch  *)
(* number, words, message) in the sink before the next batch is started.  *)
C6_FailureRecorded ==
    \A e \in exhausted : HasFailureRecord(e)

(* C7: a run that passed validation ends with all batches completed and a *)
(* summary in which successful + failed batches = total batches.          *)
C7_SummaryAtEnd ==
    RunEnded =>
        /\ summary.produced
        /\ summary.successfulBatches + summary.failedBatches = summary.totalBatches
        /\ LoopIndices(startIndex) \subseteq requested

(* the inputs main has to refuse *)
C8_BadInput ==
    \/ inWords.kind = "absent"
    \/ (inWords.kind = "array" /\ Len(inWords.val) = 0)
    \/ inBatchSize <= 0
    \/ (variant = "single" /\ inBatchSize > UpperBoundSingle)
    \/ (variant = "retry" /\ inBatchSize > UpperBoundRetry)

(* C8: with the word list missing or empty, or batchSize 0, negative or   *)
(* above the upper bound, main fails with the configuration error before  *)
(* processAllWords: no request, nothing written to sink or checkpoint.    *)
C8_ConfigurationErrorFirst ==
    C8_BadInput =>
        /\ pc \in {"main", "exit"}
        /\ pc = "exit" => error = "config"
        /\ netRequests = 0 /\ requested = {}
        /\ sink = <<>>
        /\ store = EmptyStore
        /\ file = NoResult

C8_Witness ==
    /\ pc = "exit"
    /\ error = "config"
    /\ inWords.kind = "array" /\ Len(inWords.val) > 0
    /\ inBatchSize = UpperBoundRetry + 1
    /\ variant = "retry"

(* C9: for every batch and every response (entries omitted, reordered or  *)
(* repeated) the result of main.js has word_freq.length = batch_size =    *)
(* length of the batch, and its k-th record carries the k-th batch word.  *)
C9_RecordsFollowBatch ==
    nStep \in {"single", "retry"} =>
        /\ Len(nOut.word_freq) = Len(nWords)
        /\ nOut.batch_size = Len(nWords)
        /\ \A k \in 1..Len(nWords) : nOut.word_freq[k].word = nWords[k]

C9_Witness ==
    /\ nStep = "retry"
    /\ nWords = <<Word(1), Word(2)>>
    /\ Len(nData) = 2
    /\ nData[1].type = "CASE_INSENSITIVE" /\ nData[1].ngram = Word(2) \o <<AllSuffix>>
    /\ nData[2].type = "CASE_INSENSITIVE" /\ nData[2].ngram = Word(2) \o <<AllSuffix>>
    /\ nOut.word_freq[1].freq = Sentinel10
    /\ nOut.word_freq[2].freq # Sentinel10

(* the response map of the normaliser that was applied *)
NormMap ==
    IF nStep = "single"
    THEN ResultsMapSingle(SelectSeq(nData, IsCaseInsensitive), EmptyMap)
    ELSE ResultsMapStripped(SelectSeq(nData, IsCaseInsensitive), EmptyMap)

(* C10: a batch word with no entry in the normalised response map gets    *)
(* the sentinel "-1.0000000000".                                          *)
C10_AbsentGetsSentinel ==
    nStep \in {"single", "retry", "script"} =>
        \A k \in 1..Len(nWords) :
            nWords[k] \notin DOMAIN NormMap => nOut.word_freq[k].freq = Sentinel10

(* C11: in the retrying pipeline the backoff delay after the n-th         *)
(* consecutive failure of a batch (1 <= n < MAX_RETRIES) is at least      *)
(* BASE_DELAY * 2^n and less than BASE_DELAY * 2^n + 1000; the delays of  *)
(* one batch strictly increase.                                           *)
C11_BackoffWindow ==
    variant = "retry" =>
        /\ Len(backoffs) < MAX_RETRIES
        /\ \A n \in 1..Len(backoffs) :
              /\ backoffs[n] >= BASE_DELAY * (2 ^ n)
              /\ backoffs[n] < BASE_DELAY * (2 ^ n) + 1000
        /\ \A n \in 1..(Len(backoffs) - 1) : backoffs[n] < backoffs[n + 1]
        /\ pc = "r_backoff" => /\ Len(backoffs) = retries
                               /\ delay = backoffs[retries]

C11_Witness ==
    /\ variant = "retry"
    /\ pc = "r_backoff"
    /\ retries = MAX_RETRIES - 1
    /\ backoffs[1] = BASE_DELAY * 2 + 999
    /\ backoffs[2] = BASE_DELAY * 4

(* C12: between the end of a batch (success or failure for good) and the  *)
(* first network request of the next batch the pipeline takes a pacing    *)
(* delay of at least 2000 ms; none is taken after the last batch.         *)
C12_PacingBetweenBatches ==
    /\ (pc \in {"s_fetch", "r_fetch"} /\ attempts = 0 /\ Len(formed) > 1)
          => pacing >= 2000
    /\ RunEnded => pacing = 0

(* C13: the stored checkpoint never decreases, and every write stores a   *)
(* value at least as large as the one loaded at the start of the run.     *)
C13_CheckpointMonotone ==
    [][ variant = "retry" =>
          /\ GetValueOr0(store', CheckpointKey) >= GetValueOr0(store, CheckpointKey)
          /\ store' # store => /\ store'[CheckpointKey] >= startIndex
                               /\ store'[CheckpointKey] > GetValueOr0(store, CheckpointKey)
      ]_vars

C13_Witness ==
    /\ variant = "retry"
    /\ run = 0
    /\ inBatchSize = 2
    /\ Len(Words) = 3
    /\ GetValueOr0(store, CheckpointKey) = 3

(* the success records the sink holds for batch b *)
SuccessRecordsOf(b) ==
    Cardinality({k \in 1..Len(sink) : ~sink[k].error /\ RecordWords(sink[k]) = b})

(* C14: one invocation of the batch executor issues exactly one request   *)
(* and leaves the sink and the checkpoint as they were; only the pipeline *)
(* controller commits, so a successful batch has exactly one success      *)
(* record.                                                                *)
C14_ExecutorLeavesSink ==
    (variant = "retry" /\ run = 0) =>
        /\ pc = "r_push2" => /\ attempts = retries + 1
                             /\ SuccessRecordsOf(batch) = 0
        /\ success => SuccessRecordsOf(batch) = 1

(* the CASE_INSENSITIVE entries of the response labelled "<w> (All)" *)
AllEntriesOf(w) ==
    {k \in 1..Len(nData) :
        IsCaseInsensitive(nData[k]) /\ nData[k].ngram = w \o <<AllSuffix>>}

(* the frequencies of the CASE_INSENSITIVE entries for w, suffix or not *)
FreqsOf(w) ==
    {LastFreq(nData[k]) : k \in {x \in 1..Len(nData) :
        IsCaseInsensitive(nData[x]) /\ RemoveFirst(nData[x].ngram, AllSuffix) = w}}

(* C15: a batch word w for which the response holds a CASE_INSENSITIVE    *)
(* entry labelled "<w> (All)" gets the frequency of its entry (last value *)
(* of the timeseries times 100), not the sentinel.                        *)
C15_SuffixStripped ==
    nStep \in {"single", "retry", "script"} =>
        \A k \in 1..Len(nWords) :
            AllEntriesOf(nWords[k]) # {} =>
                /\ nOut.word_freq[k].freq \in FreqsOf(nWords[k])
                /\ nOut.word_freq[k].freq \notin {Sentinel10, Sentinel1}

(* C16: retry state is per batch. At the first attempt of every batch the  *)
(* attempt counter is 0 and the delay is the base delay, whatever earlier  *)
(* batches consumed; at every attempt the counter equals the number of     *)
(* failed attempts of this batch alone, so each batch has the whole budget *)
C16_RetryStatePerBatch ==
    (variant = "retry" /\ pc = "r_fetch") =>
        /\ retries = attempts
        /\ retries < MAX_RETRIES
        /\ attempts = 0 => /\ retries = 0
                           /\ delay = BASE_DELAY
                           /\ ~success

C16_Witness ==
    /\ variant = "retry"
    /\ pc = "r_fetch"
    /\ attempts = 0
    /\ Len(formed) = 2
    /\ run = 0
    /\ netRequests = MAX_RETRIES

(* C17: in the retrying pipeline an attempt that fails in the transport or *)
(* parse step leaves the output sink and the stored checkpoint exactly as  *)
(* they were; of the batch's progress only the attempt counter moves       *)
C17_FailedAttemptWritesNothing ==
    [][ (variant = "retry" /\ pc = "r_fetch" /\ attempts' = attempts + 1
                          /\ pc' # "r_writeFile") =>
            /\ sink' = sink
            /\ store' = store
            /\ file' = file
            /\ retries' = retries + 1
            /\ i' = i
            /\ batch' = batch
            /\ success' = success
      ]_vars

C17_Witness ==
    /\ variant = "retry"
    /\ pc = "r_backoff"
    /\ retries = 2
    /\ Len(sink) > 0
    /\ GetValueOr0(store, CheckpointKey) > 0

(* the success records of the sink *)
SuccessRecordCount == Cardinality({k \in 1..Len(sink) : ~sink[k].error})

(* C18: in the single-attempt pipeline every batch is requested exactly    *)
(* once and ends with exactly one record in the sink, a success record if  *)
(* and only if the batch is counted as successful, otherwise a failure     *)
(* record: between batches the k-th record is the record of the k-th batch *)
C18_OneRecordPerBatch ==
    (variant = "single" /\ pc \in {"s_loop", "s_summary", "exit"} /\ error # "config") =>
        /\ netRequests = Len(formed)
        /\ Cardinality(requested) = Len(formed)
        /\ Len(sink) = Len(formed)
        /\ \A k \in 1..Len(sink) :
              IF sink[k].error THEN sink[k].failed_words = formed[k]
                               ELSE RecordWords(sink[k]) = formed[k]
        /\ SuccessRecordCount = successfulBatches

(* the run has loaded its checkpoint, and the checkpoint was at or past    *)
(* the end of the word list the run was given                              *)
StartedAtOrPastEnd ==
    /\ variant = "retry"
    /\ pc \in {"r_loop", "exit"}
    /\ error = "none"
    /\ startIndex >= Len(Words)

WroteNothing ==
    /\ netRequests = 0
    /\ Len(sink) = sinkAtStart
    /\ GetValueOr0(store, CheckpointKey) = startIndex

ReturnedNormally == variant = "retry" /\ pc = "exit" /\ error = "none"

(* C19: when a run of the retrying pipeline returns normally the stored    *)
(* checkpoint equals the length of the word list, and a run started with a *)
(* checkpoint at or past the length of its word list issues no request and *)
(* writes nothing to the sink or the checkpoint.                           *)
C19_CompletedRunIsNoOp ==
    /\ ReturnedNormally => GetValueOr0(store, CheckpointKey) = Len(Words)
    /\ StartedAtOrPastEnd => WroteNothing

(* C19, amended: when a run of the retrying pipeline returns normally the  *)
(* stored checkpoint is the larger of the length of the word list and the  *)
(* checkpoint the run loaded (the length, when the run started at or below *)
(* it), and a run started with a checkpoint at or past the length of its   *)
(* word list issues no request and writes nothing to the sink or the       *)
(* checkpoint.                                                             *)
C19_CompletedRunIsNoOpAmended ==
    /\ ReturnedNormally =>
           /\ GetValueOr0(store, CheckpointKey) = Max({Len(Words), startIndex})
           /\ startIndex <= Len(Words) => store[CheckpointKey] = Len(Words)
    /\ StartedAtOrPastEnd => WroteNothing

C19_Witness ==
    /\ ReturnedNormally
    /\ run > 0
    /\ startIndex > Len(Words)
    /\ sinkAtStart > 0
    /\ WroteNothing

(* the run has loaded its checkpoint c = startIndex *)
RunLoaded ==
    /\ variant = "retry"
    /\ pc \in (Suspended \ {"r_enter"}) \cup {"r_loop", "exit"}
    /\ error # "config"

RequestBudget == MAX_RETRIES * CeilDiv(Len(Words) - startIndex, inBatchSize)

(* a run that has started ends, normally or with the exhausted-batch error *)
RunTerminates ==
    \A r \in 0..MaxRestarts :
        (variant = "retry" /\ run = r /\ pc = "r_enter") ~> (run = r /\ pc = "exit")

(* C20: every network call returning, a run of the retrying pipeline that  *)
(* starts at checkpoint c over n words with batch size B terminates after  *)
(* at most MAX_RETRIES * ceil((n - c) / B) network requests.               *)
C20_RequestBound ==
    /\ [](RunLoaded => netRequests <= RequestBudget)
    /\ RunTerminates

(* C20, amended: every network call returning, a run of the retrying       *)
(* pipeline that starts at checkpoint c over n words with batch size B     *)
(* terminates after at most MAX_RETRIES * ceil((n - c) / B) network        *)
(* requests when c <= n, and after no request at all when c > n.           *)
C20_RequestBoundAmended ==
    /\ [](RunLoaded => netRequests <= Max({0, RequestBudget}))
    /\ RunTerminates

C20_Witness ==
    /\ RunLoaded
    /\ pc = "exit"
    /\ startIndex > 0
    /\ netRequests > MAX_RETRIES
    /\ netRequests = RequestBudget

====
